---- MODULE Spec2Model ----
(***************************************************************************)
(* The five diagnostic scripts of GeoModelLab/breath as one state machine. *)
(* A run is one execution of one script: `script` names it, `pc` is the    *)
(* position in its text, and every action is one block of statements.      *)
(*                                                                         *)
(* Conventions.                                                            *)
(*  - Coordinates are integers in tenths of a degree (52.5 N is 525).      *)
(*  - Python arrays are TLA+ sequences; At(a, k) is a[k] (0-based).        *)
(*  - The dataset variable tx is not stored: Tx(t, la, lo) is the element  *)
(*    at time t and full-grid indices (la, lo), either the masked marker   *)
(*    or a value tagged with where it comes from, so that two elements     *)
(*    are equal only when they are the same element.                       *)
(*  - The chunk file is its length in bytes; float k of the file is the    *)
(*    number k, so a slice of the file is the sequence of the float        *)
(*    indices it holds.                                                    *)
(*  - An uncaught Python exception ends the run with pc = "crashed".       *)
(***************************************************************************)
EXTENDS Integers, Sequences, FiniteSets, TLC

VARIABLES
    script,             \* which of the five scripts runs
    pc,                 \* position in the script
    ops,                \* the operations performed so far, in order
    lat_full, lon_full, \* the dataset's coordinate arrays
    chunk_len,          \* len(chunk_data): bytes read from the chunk file
    lat_indices, lon_indices,            \* np.where(mask)[0]
    lat_start, lat_end, lon_start, lon_end,
    shape,              \* data_nc.shape
    nlon, nlat, ntime,
    coord_idx, j, i, t, \* the flattening loop
    flat_data_python,
    iterations,         \* innermost loop bodies executed so far
    full_lat_idx, full_lon_idx,
    filtered_lat_idx, filtered_lon_idx,
    coord_index,        \* coord_index / coord_idx_calculated / coord_idx_berlin
    chunk_offset,
    netcdf_ts,          \* netcdf_ts / berlin_nc / location_timeseries
    chunk_ts, python_ts,
    missing_count,
    row,                \* rows of the side-by-side table printed so far
    dims_printed        \* dimension lines diagnose_netcdf.py has printed so far

envVars    == <<lat_full, lon_full, chunk_len>>
filterVars == <<lat_indices, lon_indices>>
blockVars  == <<lat_start, lat_end, lon_start, lon_end, shape>>
loopVars   == <<nlon, nlat, ntime, coord_idx, j, i, t, flat_data_python, iterations>>
nearVars   == <<full_lat_idx, full_lon_idx, filtered_lat_idx, filtered_lon_idx>>
seriesVars == <<coord_index, chunk_offset, netcdf_ts, chunk_ts, python_ts, missing_count,
                row, dims_printed>>
vars == <<script, pc, ops, envVars, filterVars, blockVars, loopVars, nearVars, seriesVars>>

----------------------------------------------------------------------------
(* Bounds of the model.  The source's sizes are far beyond enumeration, so *)
(* each is scaled down; the source's value is given beside it.             *)

MaxLat == 3       \* longest latitude array a dataset may have
MaxLon == 2       \* longest longitude array a dataset may have
GridLat == 3      \* 465, the latitude count compare_netcdf_chunk.py hardcodes
GridLon == 2      \* 705, the longitude count compare_netcdf_chunk.py hardcodes
NumDays == 10     \* 730, the days of a chunk (time_count, num_days); >= NumRows
ExtraDays == 1    \* time steps the dataset has beyond the first NumDays
ProbeCount == 4   \* 1000, the floats check_chunk.py and compare_netcdf_chunk.py probe

(* Program constants.                                                      *)
NumRows == 10         \* range(10): rows of the side-by-side tables
BytesPerFloat == 4    \* float32
min_lon == -250
max_lon == 450
min_lat == 340
max_lat == 720
test_lat == 525       \* Berlin, verify_coordinate_mapping.py and final_diagnosis.py
test_lon == 134
target_lat == 500     \* central Europe, compare_netcdf_chunk.py and diagnose_netcdf.py
target_lon == 100

Scripts == {"check_chunk", "diagnose_netcdf", "compare_netcdf_chunk",
            "verify_coordinate_mapping", "final_diagnosis"}

(* Coordinate values a dataset may hold: one outside the bounding box and  *)
(* two inside it.  Arrays are arbitrary sequences of them: sorted or not,  *)
(* with or without repeated values.                                        *)
LatValues == {min_lat - 1, test_lat + 5, max_lat - 5}
LonValues == {min_lon + 1, test_lon - 4, max_lon + 1}

SeqsUpTo(S, n) == UNION {[1..k -> S] : k \in 1..n}
LatArrays == SeqsUpTo(LatValues, MaxLat)
LonArrays == SeqsUpTo(LonValues, MaxLon)

TimeLen == NumDays + ExtraDays    \* the dataset's time dimension

----------------------------------------------------------------------------
(* Python and numpy primitives.                                            *)

Min(a, b) == IF a <= b THEN a ELSE b
Max(a, b) == IF a >= b THEN a ELSE b
Abs(x) == IF x < 0 THEN -x ELSE x

At(a, k) == a[k + 1]

(* for k in range(n): k is one of the loop's iterations.                   *)
InRange_OffByOne(k, n) == k + 1 < n
InRange(k, n) == k < n

(* a[lo:hi] of a sequence of length n, for lo, hi >= 0: the bounds clamp.  *)
SliceLo(lo, n) == Min(lo, n)
SliceHi(lo, hi, n) == Max(SliceLo(lo, n), Min(hi, n))
SliceLen(lo, hi, n) == SliceHi(lo, hi, n) - SliceLo(lo, n)

(* np.where((a >= lo) & (a <= hi))[0]: the indices inside, ascending.      *)
RECURSIVE WhereFrom(_, _, _, _)
WhereFrom(a, lo, hi, k) ==
    IF k >= Len(a) THEN <<>>
    ELSE IF At(a, k) >= lo /\ At(a, k) <= hi
         THEN <<k>> \o WhereFrom(a, lo, hi, k + 1)
         ELSE WhereFrom(a, lo, hi, k + 1)
Where(a, lo, hi) == WhereFrom(a, lo, hi, 0)

(* a[idx] for an index array idx.                                          *)
Take(a, idx) == [k \in 1..Len(idx) |-> At(a, idx[k])]

(* np.argmin(np.abs(a - target)): the first index of the smallest         *)
(* distance.  Only called on non-empty arrays (argmin of an empty array    *)
(* raises ValueError, which the callers turn into a crash).                *)
ArgMin(a, target) ==
    CHOOSE k \in 0..(Len(a) - 1) :
        /\ \A m \in 0..(Len(a) - 1) : Abs(At(a, k) - target) <= Abs(At(a, m) - target)
        /\ \A m \in 0..(k - 1) : Abs(At(a, m) - target) > Abs(At(a, k) - target)

(* The dataset.  A cell is sea (every element masked) or land.             *)
Masked == <<"masked">>
NaN == <<"nan">>
IsSea(la, lo) == (la + lo) % 2 = 1
Tx(tt, la, lo) == IF IsSea(la, lo) THEN Masked ELSE <<"tx", tt, la, lo>>

(* tx[0:730, ...]: the number of time steps the slice holds.               *)
TimeSliceLen == SliceLen(0, NumDays, TimeLen)

(* Storing an element into a float32 ndarray: a masked element does not    *)
(* stay masked, it becomes NaN (what lines 88-91 and 131 of                *)
(* final_diagnosis.py count on); any other element keeps its value.        *)
ToFloat32(v) == IF v = Masked THEN NaN ELSE v

(* struct.unpack('<Nf', data) raises struct.error unless len(data) = 4N.   *)
UnpackOk(n, nbytes) == nbytes = n * BytesPerFloat

(* Sizes the chunk file may have: empty, just the probed floats, the size  *)
(* compare_netcdf_chunk.py expects, large enough for every grid, and not a *)
(* whole number of floats.                                                 *)
expected_size == (GridLat * GridLon) * NumDays * BytesPerFloat
ChunkSizes == {0, ProbeCount * BytesPerFloat, expected_size,
               MaxLat * MaxLon * NumDays * BytesPerFloat,
               MaxLat * MaxLon * NumDays * BytesPerFloat + 2}

(* The chunk floats [lo, hi) as a sequence.                                *)
ChunkFloats(lo, hi) == [d \in 1..(hi - lo) |-> lo + d - 1]

(* The operations a script has performed so far, in order: open_dataset,  *)
(* open_chunk, coord_index, slice_dataset, slice_chunk, compare (the       *)
(* side-by-side table) and extract_block (the filtered block of            *)
(* final_diagnosis.py).                                                    *)
Record(op) == Append(ops, op)

----------------------------------------------------------------------------
Init ==
    /\ script \in Scripts
    /\ pc = "start"
    /\ ops = <<>>
    /\ lat_full = <<>> /\ lon_full = <<>>
    /\ chunk_len = 0
    /\ lat_indices = <<>> /\ lon_indices = <<>>
    /\ lat_start = 0 /\ lat_end = 0 /\ lon_start = 0 /\ lon_end = 0
    /\ shape = <<0, 0, 0>>
    /\ nlon = 0 /\ nlat = 0 /\ ntime = 0
    /\ coord_idx = 0 /\ j = 0 /\ i = 0 /\ t = 0
    /\ flat_data_python = <<>>
    /\ iterations = 0
    /\ full_lat_idx = 0 /\ full_lon_idx = 0
    /\ filtered_lat_idx = 0 /\ filtered_lon_idx = 0
    /\ coord_index = 0
    /\ chunk_offset = 0
    /\ netcdf_ts = <<>> /\ chunk_ts = <<>> /\ python_ts = <<>>
    /\ missing_count = 0
    /\ row = 0
    /\ dims_printed = 0

----------------------------------------------------------------------------
(* check_chunk.py                                                          *)

\* line 3: data = open(chunk).read(1000*4)
cc_Read ==
    /\ script = "check_chunk" /\ pc = "start"
    /\ \E n \in ChunkSizes : chunk_len' = Min(n, ProbeCount * BytesPerFloat)
    /\ ops' = Record("open_chunk")
    /\ pc' = "unpack"
    /\ UNCHANGED <<script, lat_full, lon_full, filterVars, blockVars, loopVars,
                   nearVars, seriesVars>>

\* lines 4-11: vals = struct.unpack('<1000f', data), then the prints
cc_Unpack ==
    /\ script = "check_chunk" /\ pc = "unpack"
    /\ pc' = IF UnpackOk(ProbeCount, chunk_len) THEN "done" ELSE "crashed"
    /\ UNCHANGED <<script, ops, envVars, filterVars, blockVars, loopVars,
                   nearVars, seriesVars>>

NextCheckChunk == cc_Read \/ cc_Unpack

----------------------------------------------------------------------------
(* diagnose_netcdf.py                                                      *)

Dimensions == <<"longitude", "latitude", "time">>

\* lines 5-14: open the dataset
dn_Open ==
    /\ script = "diagnose_netcdf" /\ pc = "start"
    /\ ops' = Record("open_dataset")
    /\ pc' = "dims"
    /\ UNCHANGED <<script, envVars, filterVars, blockVars, loopVars, nearVars,
                   seriesVars>>

\* lines 18-19: for dim_name, dim in ncfile.dimensions.items(): one line each
dn_Dim ==
    /\ script = "diagnose_netcdf" /\ pc = "dims"
    /\ IF InRange(dims_printed, Len(Dimensions))
       THEN /\ dims_printed' = dims_printed + 1
            /\ pc' = pc
       ELSE /\ dims_printed' = dims_printed
            /\ pc' = "slices"
    /\ UNCHANGED <<script, ops, envVars, filterVars, blockVars, loopVars, nearVars,
                   coord_index, chunk_offset, netcdf_ts, chunk_ts, python_ts,
                   missing_count, row>>

\* lines 22-109: the variable's attributes, the first and the middle time
\* slice, and the coordinate arrays
dn_Slices ==
    /\ script = "diagnose_netcdf" /\ pc = "slices"
    /\ lat_full' \in LatArrays
    /\ lon_full' \in LonArrays
    /\ pc' = "locate"
    /\ UNCHANGED <<script, ops, chunk_len, filterVars, blockVars, loopVars,
                   nearVars, seriesVars>>

\* lines 112-133: the nearest cell to 50 N 10 E and its whole time series
\* location_timeseries = tx[:, lat_idx, lon_idx]
dn_Locate ==
    /\ script = "diagnose_netcdf" /\ pc = "locate"
    /\ full_lat_idx' = ArgMin(lat_full, target_lat)
    /\ full_lon_idx' = ArgMin(lon_full, target_lon)
    /\ netcdf_ts' = [d \in 1..TimeLen |-> Tx(d - 1, full_lat_idx', full_lon_idx')]
    /\ ops' = Record("slice_dataset")
    /\ pc' = "close"
    /\ UNCHANGED <<script, envVars, filterVars, blockVars, loopVars,
                   filtered_lat_idx, filtered_lon_idx,
                   coord_index, chunk_offset, chunk_ts, python_ts, missing_count,
                   row, dims_printed>>

\* lines 135-139
dn_Close ==
    /\ script = "diagnose_netcdf" /\ pc = "close"
    /\ pc' = "done"
    /\ UNCHANGED <<script, ops, envVars, filterVars, blockVars, loopVars,
                   nearVars, seriesVars>>

NextDiagnose == dn_Open \/ dn_Dim \/ dn_Slices \/ dn_Locate \/ dn_Close

----------------------------------------------------------------------------
(* compare_netcdf_chunk.py                                                 *)

\* line 83: lat-major index of a cell in a grid nlon_ cells wide
CompareCoordIndex_Swapped(lat_idx, lon_idx, nlon_) == lon_idx * nlon_ + lat_idx
CompareCoordIndex(lat_idx, lon_idx, nlon_) == lat_idx * nlon_ + lon_idx

\* lines 10-21: open the dataset, tx[0:730, :, :]
cn_Open ==
    /\ script = "compare_netcdf_chunk" /\ pc = "start"
    /\ ops' = Record("open_dataset")
    /\ pc' = "read_chunk"
    /\ UNCHANGED <<script, envVars, filterVars, blockVars, loopVars, nearVars,
                   seriesVars>>

\* lines 24-45: chunk_data = f.read(); expected_size; unpack the first 1000
\* floats of chunk_data[:1000*4]
cn_ReadChunk ==
    /\ script = "compare_netcdf_chunk" /\ pc = "read_chunk"
    /\ \E n \in ChunkSizes :
        /\ chunk_len' = n
        /\ pc' = IF UnpackOk(ProbeCount, SliceLen(0, ProbeCount * BytesPerFloat, n))
                 THEN "coord0" ELSE "crashed"
    /\ ops' = Record("open_chunk")
    /\ UNCHANGED <<script, lat_full, lon_full, filterVars, blockVars, loopVars,
                   nearVars, seriesVars>>

\* lines 52-64: the time series of coordinate (0, 0)
cn_Coord0 ==
    /\ script = "compare_netcdf_chunk" /\ pc = "coord0"
    /\ netcdf_ts' = [d \in 1..TimeSliceLen |-> Tx(d - 1, 0, 0)]
    /\ ops' = Record("slice_dataset")
    /\ pc' = "locate"
    /\ UNCHANGED <<script, envVars, filterVars, blockVars, loopVars, nearVars,
                   coord_index, chunk_offset, chunk_ts, python_ts, missing_count,
                   row, dims_printed>>

\* lines 71-80: the coordinate arrays and the nearest cell to 50 N 10 E
cn_Locate ==
    /\ script = "compare_netcdf_chunk" /\ pc = "locate"
    /\ \E la \in LatArrays, lo \in LonArrays :
        /\ lat_full' = la
        /\ lon_full' = lo
        /\ full_lat_idx' = ArgMin(la, target_lat)
        /\ full_lon_idx' = ArgMin(lo, target_lon)
    /\ pc' = "index"
    /\ UNCHANGED <<script, ops, chunk_len, filterVars, blockVars, loopVars,
                   filtered_lat_idx, filtered_lon_idx, seriesVars>>

\* lines 83-84: coord_index = lat_idx * len(lon) + lon_idx
cn_Index ==
    /\ script = "compare_netcdf_chunk" /\ pc = "index"
    /\ coord_index' = CompareCoordIndex(full_lat_idx, full_lon_idx, Len(lon_full))
    /\ ops' = Record("coord_index")
    /\ pc' = "netcdf_ts"
    /\ UNCHANGED <<script, envVars, filterVars, blockVars, loopVars, nearVars,
                   chunk_offset, netcdf_ts, chunk_ts, python_ts, missing_count, row,
                   dims_printed>>

\* lines 87-93: netcdf_ts = tx[0:730, lat_idx, lon_idx]
cn_NetcdfTs ==
    /\ script = "compare_netcdf_chunk" /\ pc = "netcdf_ts"
    /\ netcdf_ts' = [d \in 1..TimeSliceLen |-> Tx(d - 1, full_lat_idx, full_lon_idx)]
    /\ ops' = Record("slice_dataset")
    /\ pc' = "chunk_ts"
    /\ UNCHANGED <<script, envVars, filterVars, blockVars, loopVars, nearVars,
                   coord_index, chunk_offset, chunk_ts, python_ts, missing_count,
                   row, dims_printed>>

\* line 97: chunk_offset = coord_index * num_days * 4
CompareChunkOffset(c) == c * NumDays * BytesPerFloat

\* lines 97-105: the bytes [chunk_offset, chunk_offset + num_days*4) of the
\* file, unpacked as num_days floats
cn_ChunkTs ==
    /\ script = "compare_netcdf_chunk" /\ pc = "chunk_ts"
    /\ chunk_offset' = CompareChunkOffset(coord_index)
    /\ LET lo == SliceLo(chunk_offset', chunk_len)
           hi == SliceHi(chunk_offset', chunk_offset' + NumDays * BytesPerFloat, chunk_len)
       IN  IF UnpackOk(NumDays, hi - lo)
           THEN /\ chunk_ts' = ChunkFloats(lo \div BytesPerFloat, hi \div BytesPerFloat)
                /\ pc' = "stats"
           ELSE /\ chunk_ts' = chunk_ts
                /\ pc' = "crashed"
    /\ ops' = Record("slice_chunk")
    /\ UNCHANGED <<script, envVars, filterVars, blockVars, loopVars, nearVars,
                   coord_index, netcdf_ts, python_ts, missing_count, row,
                   dims_printed>>

\* lines 113-137: unpack the whole file as len(chunk_data)//4 floats, the
\* totals, close
cn_Stats ==
    /\ script = "compare_netcdf_chunk" /\ pc = "stats"
    /\ pc' = IF UnpackOk(chunk_len \div BytesPerFloat, chunk_len)
             THEN "done" ELSE "crashed"
    /\ UNCHANGED <<script, ops, envVars, filterVars, blockVars, loopVars,
                   nearVars, seriesVars>>

NextCompare ==
    cn_Open \/ cn_ReadChunk \/ cn_Coord0 \/ cn_Locate \/ cn_Index \/ cn_NetcdfTs
    \/ cn_ChunkTs \/ cn_Stats

----------------------------------------------------------------------------
(* verify_coordinate_mapping.py                                            *)

\* line 75: lat-major index of a cell of the filtered grid
VerifyCoordIdx_LonMajor(lat_idx, lon_idx, nlon_) == lon_idx * Len(lat_indices) + lat_idx
VerifyCoordIdx(lat_idx, lon_idx, nlon_) == lat_idx * nlon_ + lon_idx

\* lines 65-66: the nearest cell of the filtered grid
VerifyFilteredLatIdx_FullGrid(lat_filtered) == ArgMin(lat_full, test_lat)
VerifyFilteredLatIdx(lat_filtered) == ArgMin(lat_filtered, test_lat)
VerifyFilteredLonIdx(lon_filtered) == ArgMin(lon_filtered, test_lon)

\* lines 10-18: open the dataset and read the coordinate arrays
vm_Open ==
    /\ script = "verify_coordinate_mapping" /\ pc = "start"
    /\ lat_full' \in LatArrays
    /\ lon_full' \in LonArrays
    /\ ops' = Record("open_dataset")
    /\ pc' = "filter"
    /\ UNCHANGED <<script, chunk_len, filterVars, blockVars, loopVars, nearVars,
                   seriesVars>>

\* lines 21-38: the bounding-box masks, the selected indices, the filtered
\* arrays; lon_filtered.min() and lat_filtered.min() raise ValueError on an
\* empty array
vm_Filter ==
    /\ script = "verify_coordinate_mapping" /\ pc = "filter"
    /\ lon_indices' = Where(lon_full, min_lon, max_lon)
    /\ lat_indices' = Where(lat_full, min_lat, max_lat)
    /\ pc' = IF Len(lon_indices') = 0 \/ Len(lat_indices') = 0
             THEN "crashed" ELSE "full_idx"
    /\ UNCHANGED <<script, ops, envVars, blockVars, loopVars, nearVars, seriesVars>>

\* lines 41-62: the nearest cell of the full grid to Berlin and its series
\* berlin_nc = tx[0:730, full_lat_idx, full_lon_idx]
vm_FullIdx ==
    /\ script = "verify_coordinate_mapping" /\ pc = "full_idx"
    /\ full_lat_idx' = ArgMin(lat_full, test_lat)
    /\ full_lon_idx' = ArgMin(lon_full, test_lon)
    /\ netcdf_ts' = [d \in 1..TimeSliceLen |-> Tx(d - 1, full_lat_idx', full_lon_idx')]
    /\ ops' = Record("slice_dataset")
    /\ pc' = "filtered_idx"
    /\ UNCHANGED <<script, envVars, filterVars, blockVars, loopVars,
                   filtered_lat_idx, filtered_lon_idx,
                   coord_index, chunk_offset, chunk_ts, python_ts, missing_count,
                   row, dims_printed>>

\* lines 65-78: the nearest cell of the filtered grid and its flattened
\* index coord_idx_calculated
vm_FilteredIdx ==
    /\ script = "verify_coordinate_mapping" /\ pc = "filtered_idx"
    /\ filtered_lat_idx' = VerifyFilteredLatIdx(Take(lat_full, lat_indices))
    /\ filtered_lon_idx' = VerifyFilteredLonIdx(Take(lon_full, lon_indices))
    /\ coord_index' = VerifyCoordIdx(filtered_lat_idx', filtered_lon_idx',
                                     Len(lon_indices))
    /\ ops' = Record("coord_index")
    /\ pc' = "read_chunk"
    /\ UNCHANGED <<script, envVars, filterVars, blockVars, loopVars,
                   full_lat_idx, full_lon_idx,
                   chunk_offset, netcdf_ts, chunk_ts, python_ts, missing_count, row,
                   dims_printed>>

\* lines 81-83: chunk_data = f.read()
vm_ReadChunk ==
    /\ script = "verify_coordinate_mapping" /\ pc = "read_chunk"
    /\ chunk_len' \in ChunkSizes
    /\ ops' = Record("open_chunk")
    /\ pc' = "chunk_ts"
    /\ UNCHANGED <<script, lat_full, lon_full, filterVars, blockVars, loopVars,
                   nearVars, seriesVars>>

\* lines 86-95: the bytes [offset, offset + num_days*4) unpacked as num_days
\* floats; missing_count counts the -99.99 among them
vm_ChunkTs ==
    /\ script = "verify_coordinate_mapping" /\ pc = "chunk_ts"
    /\ chunk_offset' = coord_index * NumDays * BytesPerFloat
    /\ LET lo == SliceLo(chunk_offset', chunk_len)
           hi == SliceHi(chunk_offset', chunk_offset' + NumDays * BytesPerFloat, chunk_len)
       IN  IF UnpackOk(NumDays, hi - lo)
           THEN /\ chunk_ts' = ChunkFloats(lo \div BytesPerFloat, hi \div BytesPerFloat)
                /\ missing_count' \in 0..1
                /\ pc' = "compare"
           ELSE /\ chunk_ts' = chunk_ts
                /\ missing_count' = missing_count
                /\ pc' = "crashed"
    /\ ops' = Record("slice_chunk")
    /\ UNCHANGED <<script, envVars, filterVars, blockVars, loopVars, nearVars,
                   coord_index, netcdf_ts, python_ts, row, dims_printed>>

\* line 102: if missing_count == 0
NoMissing_Always(m) == m >= 0
NoMissing(m) == m = 0

\* lines 102-109: if missing_count == 0, the table's header
vm_Compare ==
    /\ script = "verify_coordinate_mapping" /\ pc = "compare"
    /\ IF NoMissing(missing_count)
       THEN /\ ops' = Record("compare")
            /\ pc' = "rows"
       ELSE /\ ops' = ops
            /\ pc' = "close"
    /\ row' = 0
    /\ UNCHANGED <<script, envVars, filterVars, blockVars, loopVars, nearVars,
                   coord_index, chunk_offset, netcdf_ts, chunk_ts, python_ts,
                   missing_count, dims_printed>>

\* lines 104-105, 110-112: for i in range(10): one row of nc_values[i] and
\* chunk_values[i], the first ten of each series (IndexError past the end)
vm_Row ==
    /\ script = "verify_coordinate_mapping" /\ pc = "rows"
    /\ IF ~InRange(row, NumRows)
       THEN /\ pc' = "close"
            /\ row' = row
       ELSE IF row >= SliceLen(0, NumRows, Len(netcdf_ts))
               \/ row >= SliceLen(0, NumRows, Len(chunk_ts))
       THEN /\ pc' = "crashed"
            /\ row' = row
       ELSE /\ pc' = pc
            /\ row' = row + 1
    /\ UNCHANGED <<script, ops, envVars, filterVars, blockVars, loopVars, nearVars,
                   coord_index, chunk_offset, netcdf_ts, chunk_ts, python_ts,
                   missing_count, dims_printed>>

\* lines 114-118
vm_Close ==
    /\ script = "verify_coordinate_mapping" /\ pc = "close"
    /\ pc' = "done"
    /\ UNCHANGED <<script, ops, envVars, filterVars, blockVars, loopVars,
                   nearVars, seriesVars>>

NextVerify ==
    vm_Open \/ vm_Filter \/ vm_FullIdx \/ vm_FilteredIdx \/ vm_ReadChunk
    \/ vm_ChunkTs \/ vm_Compare \/ vm_Row \/ vm_Close

----------------------------------------------------------------------------
(* final_diagnosis.py                                                      *)

\* lines 39-40: the block runs from the first selected index to the last
BlockStart(indices) == indices[1]
BlockEnd_Inclusive(indices) == indices[Len(indices)]
BlockEnd(indices) == indices[Len(indices)] + 1

\* line 48: data_nc[tt, jj, ii] of data_nc = tx[0:730, lat_start:lat_end,
\* lon_start:lon_end]
data_nc(tt, jj, ii) == Tx(tt, lat_start + jj, lon_start + ii)

\* line 54: data_transposed = np.transpose(data_nc, (2, 1, 0))
data_transposed(ii, jj, tt) == data_nc(tt, jj, ii)

\* line 81: flat_idx = coord_idx * ntime + t
FlatIdx_TimeMajor(c, tt) == tt * (nlon * nlat) + c
FlatIdx(c, tt) == c * ntime + tt

\* line 120: coord_idx_berlin = filtered_lat_idx * nlon + filtered_lon_idx
CoordIdxBerlin(lat_idx, lon_idx, nlon_) == lat_idx * nlon_ + lon_idx

\* lines 10-13: open the dataset and read the coordinate arrays
fd_Open ==
    /\ script = "final_diagnosis" /\ pc = "start"
    /\ lat_full' \in LatArrays
    /\ lon_full' \in LonArrays
    /\ ops' = Record("open_dataset")
    /\ pc' = "filter"
    /\ UNCHANGED <<script, chunk_len, filterVars, blockVars, loopVars, nearVars,
                   seriesVars>>

\* lines 16-28: the bounding-box masks and the selected indices
fd_Filter ==
    /\ script = "final_diagnosis" /\ pc = "filter"
    /\ lon_indices' = Where(lon_full, min_lon, max_lon)
    /\ lat_indices' = Where(lat_full, min_lat, max_lat)
    /\ pc' = "extract"
    /\ UNCHANGED <<script, ops, envVars, blockVars, loopVars, nearVars, seriesVars>>

\* lines 35-51: the block's bounds (IndexError when nothing is selected) and
\* data_nc = tx[0:730, lat_start:lat_end, lon_start:lon_end]
fd_Extract ==
    /\ script = "final_diagnosis" /\ pc = "extract"
    /\ IF Len(lat_indices) = 0 \/ Len(lon_indices) = 0
       THEN /\ pc' = "crashed"
            /\ UNCHANGED <<ops, blockVars>>
       ELSE /\ lat_start' = BlockStart(lat_indices)
            /\ lat_end' = BlockEnd(lat_indices)
            /\ lon_start' = BlockStart(lon_indices)
            /\ lon_end' = BlockEnd(lon_indices)
            /\ shape' = <<TimeSliceLen,
                          SliceLen(lat_start', lat_end', Len(lat_full)),
                          SliceLen(lon_start', lon_end', Len(lon_full))>>
            /\ ops' = Record("extract_block")
            /\ pc' = "transpose"
    /\ UNCHANGED <<script, envVars, filterVars, loopVars, nearVars, seriesVars>>

\* lines 54-77: nlon, nlat, ntime = data_transposed.shape; the flat array of
\* zeros; coord_idx = 0
fd_Transpose ==
    /\ script = "final_diagnosis" /\ pc = "transpose"
    /\ nlon' = shape[3]
    /\ nlat' = shape[2]
    /\ ntime' = shape[1]
    /\ flat_data_python' = [k \in 0..(shape[3] * shape[2] * shape[1] - 1) |-> <<"zero">>]
    /\ coord_idx' = 0
    /\ j' = 0 /\ i' = 0 /\ t' = 0
    /\ iterations' = 0
    /\ pc' = "flatten"
    /\ UNCHANGED <<script, ops, envVars, filterVars, blockVars, nearVars, seriesVars>>

\* lines 78-84: one body of the innermost loop, for the current (j, i, t),
\* then the loops' bookkeeping: t next, or coord_idx += 1 and i next, or j
\* next, or the end of the loops (each range is non-empty here)
fd_Flatten ==
    /\ script = "final_diagnosis" /\ pc = "flatten"
    /\ flat_data_python' =
          [flat_data_python EXCEPT ![FlatIdx(coord_idx, t)] =
                                       ToFloat32(data_transposed(i, j, t))]
    /\ iterations' = iterations + 1
    /\ IF InRange(t + 1, ntime)
       THEN /\ t' = t + 1
            /\ UNCHANGED <<i, j, coord_idx, pc>>
       ELSE /\ coord_idx' = coord_idx + 1
            /\ t' = 0
            /\ IF InRange(i + 1, nlon)
               THEN /\ i' = i + 1
                    /\ UNCHANGED <<j, pc>>
               ELSE /\ i' = 0
                    /\ j' = j + 1
                    /\ pc' = IF InRange(j + 1, nlat) THEN pc ELSE "read_chunk"
    /\ UNCHANGED <<script, ops, envVars, filterVars, blockVars, nlon, nlat, ntime,
                   nearVars, seriesVars>>

\* lines 86-102: the masked count; chunk_data = f.read(), unpacked whole as
\* len(chunk_data)//4 floats
fd_ReadChunk ==
    /\ script = "final_diagnosis" /\ pc = "read_chunk"
    /\ \E n \in ChunkSizes :
        /\ chunk_len' = n
        /\ pc' = IF UnpackOk(n \div BytesPerFloat, n) THEN "filtered_idx" ELSE "crashed"
    /\ ops' = Record("open_chunk")
    /\ UNCHANGED <<script, lat_full, lon_full, filterVars, blockVars, loopVars,
                   nearVars, seriesVars>>

\* lines 105-121: the nearest cell of the filtered grid to Berlin and its
\* flattened index coord_idx_berlin
fd_FilteredIdx ==
    /\ script = "final_diagnosis" /\ pc = "filtered_idx"
    /\ filtered_lat_idx' = ArgMin(Take(lat_full, lat_indices), test_lat)
    /\ filtered_lon_idx' = ArgMin(Take(lon_full, lon_indices), test_lon)
    /\ coord_index' = CoordIdxBerlin(filtered_lat_idx', filtered_lon_idx', nlon)
    /\ ops' = Record("coord_index")
    /\ pc' = "series"
    /\ UNCHANGED <<script, envVars, filterVars, blockVars, loopVars,
                   full_lat_idx, full_lon_idx,
                   chunk_offset, netcdf_ts, chunk_ts, python_ts, missing_count, row,
                   dims_printed>>

\* lines 124-129: python_ts and chunk_ts, the slices
\* [coord_idx_berlin * ntime : (coord_idx_berlin + 1) * ntime] of the flat
\* array and of the chunk's floats; the table's header
fd_Series ==
    /\ script = "final_diagnosis" /\ pc = "series"
    /\ LET n == nlon * nlat * ntime
           lo == SliceLo(coord_index * ntime, n)
           hi == SliceHi(coord_index * ntime, (coord_index + 1) * ntime, n)
       IN  python_ts' = [d \in 1..(hi - lo) |-> flat_data_python[lo + d - 1]]
    /\ LET n == chunk_len \div BytesPerFloat
           lo == SliceLo(coord_index * ntime, n)
           hi == SliceHi(coord_index * ntime, (coord_index + 1) * ntime, n)
       IN  chunk_ts' = ChunkFloats(lo, hi)
    /\ ops' = ops \o <<"slice_dataset", "slice_chunk", "compare">>
    /\ row' = 0
    /\ pc' = "rows"
    /\ UNCHANGED <<script, envVars, filterVars, blockVars, loopVars, nearVars,
                   coord_index, chunk_offset, netcdf_ts, missing_count, dims_printed>>

\* lines 130-134: for i in range(10): one row of python_ts[i] and
\* chunk_ts[i] (IndexError past the end of either)
fd_Row ==
    /\ script = "final_diagnosis" /\ pc = "rows"
    /\ IF ~InRange(row, NumRows)
       THEN /\ pc' = "stats"
            /\ row' = row
       ELSE IF row >= Len(python_ts) \/ row >= Len(chunk_ts)
       THEN /\ pc' = "crashed"
            /\ row' = row
       ELSE /\ pc' = pc
            /\ row' = row + 1
    /\ UNCHANGED <<script, ops, envVars, filterVars, blockVars, loopVars, nearVars,
                   coord_index, chunk_offset, netcdf_ts, chunk_ts, python_ts,
                   missing_count, dims_printed>>

\* lines 137-159: the statistics of the valid values of the flat array and
\* of the chunk (np.min raises ValueError when there is none; whether the
\* chunk holds a valid value is the file's business), close
fd_Stats ==
    /\ script = "final_diagnosis" /\ pc = "stats"
    /\ \E chunk_has_valid \in BOOLEAN :
        pc' = IF (\A k \in DOMAIN flat_data_python : flat_data_python[k] = NaN)
                 \/ ~chunk_has_valid
              THEN "crashed" ELSE "done"
    /\ UNCHANGED <<script, ops, envVars, filterVars, blockVars, loopVars,
                   nearVars, seriesVars>>

NextFinal ==
    fd_Open \/ fd_Filter \/ fd_Extract \/ fd_Transpose \/ fd_Flatten
    \/ fd_ReadChunk \/ fd_FilteredIdx \/ fd_Series \/ fd_Row \/ fd_Stats

----------------------------------------------------------------------------
Next == NextCheckChunk \/ NextDiagnose \/ NextCompare \/ NextVerify \/ NextFinal

Spec == Init /\ [][Next]_vars

(* A script is one sequential process that nothing suspends: whenever it   *)
(* has a next statement it eventually executes it.                         *)
FairSpec == Spec /\ WF_vars(Next)

(* One script alone.                                                       *)
InitCompare == Init /\ script = "compare_netcdf_chunk"
InitVerify == Init /\ script = "verify_coordinate_mapping"
InitFinal == Init /\ script = "final_diagnosis"

SpecCompare == InitCompare /\ [][NextCompare]_vars
SpecVerify == InitVerify /\ [][NextVerify]_vars
SpecFinal == InitFinal /\ [][NextFinal]_vars

Terminated == pc \in {"done", "crashed"}

----------------------------------------------------------------------------
(* What the claims speak of.                                               *)

Did(op) == \E k \in 1..Len(ops) : ops[k] = op

IsPrefix(a, b) == Len(a) <= Len(b) /\ \A k \in 1..Len(a) : a[k] = b[k]

InBox(x, lo, hi) == lo <= x /\ x <= hi

Monotonic(a) ==
    \/ \A k \in 1..(Len(a) - 1) : a[k] <= a[k + 1]
    \/ \A k \in 1..(Len(a) - 1) : a[k] >= a[k + 1]

LatMajor(a, b, nlat_, nlon_) == a * nlon_ + b
LonMajor(a, b, nlat_, nlon_) == b * nlat_ + a

IndexScripts == {"compare_netcdf_chunk", "verify_coordinate_mapping", "final_diagnosis"}

ScriptIndex(s, a, b, nlon_) ==
    CASE s = "compare_netcdf_chunk" -> CompareCoordIndex(a, b, nlon_)
      [] s = "verify_coordinate_mapping" -> VerifyCoordIdx(a, b, nlon_)
      [] s = "final_diagnosis" -> CoordIdxBerlin(a, b, nlon_)

----------------------------------------------------------------------------
ChunkSliced ==
    /\ script = "compare_netcdf_chunk"
    /\ Len(ops) > 0 /\ ops[Len(ops)] = "slice_chunk"

C7_Expected ==
    /\ chunk_len = expected_size
    /\ Len(lat_full) = GridLat
    /\ Len(lon_full) = GridLon

SeriesBytes == NumDays * BytesPerFloat

(* C7.  compare_netcdf_chunk.py, when the chunk file has the expected size *)
(* and the dataset's grid is the hardcoded GridLat by GridLon: once the    *)
(* chunk series has been sliced, coord_index is lat_idx * len(lon) +       *)
(* lon_idx, the bytes [chunk_offset, chunk_offset + num_days*4) lie inside *)
(* the file, the slice unpacks (no crash) into exactly num_days floats,    *)
(* float number day of it is float coord_index * num_days + day of the     *)
(* file, and the byte range of every other cell of the grid is disjoint    *)
(* from it.                                                                *)
C7_SliceInsideFile ==
    (ChunkSliced /\ C7_Expected) =>
        /\ coord_index = full_lat_idx * Len(lon_full) + full_lon_idx
        /\ chunk_offset = coord_index * NumDays * BytesPerFloat
        /\ chunk_offset + SeriesBytes <= chunk_len
        /\ pc # "crashed"
        /\ Len(chunk_ts) = NumDays
        /\ \A day \in 0..(NumDays - 1) : At(chunk_ts, day) = coord_index * NumDays + day
        /\ \A a \in 0..(GridLat - 1), b \in 0..(GridLon - 1) :
              <<a, b>> # <<full_lat_idx, full_lon_idx>> =>
                  LET off == CompareChunkOffset(CompareCoordIndex(a, b, Len(lon_full)))
                  IN  /\ off + SeriesBytes <= chunk_len
                      /\ \/ off + SeriesBytes <= chunk_offset
                         \/ chunk_offset + SeriesBytes <= off

(* C7, witness: the series of the last cell of the grid has been sliced.   *)
C7_Witness ==
    /\ ChunkSliced /\ C7_Expected
    /\ pc = "stats"
    /\ full_lat_idx = GridLat - 1
    /\ full_lon_idx = GridLon - 1

----------------------------------------------------------------------------
VerifyLocated == script = "verify_coordinate_mapping" /\ Did("coord_index")

LatNearestInBox == InBox(At(lat_full, full_lat_idx), min_lat, max_lat)
LonNearestInBox == InBox(At(lon_full, full_lon_idx), min_lon, max_lon)

(* C6, as claimed.  verify_coordinate_mapping.py: for the target inside    *)
(* the bounding box the nearest cell of the filtered grid has the          *)
(* coordinates of the nearest cell of the full grid, on both axes.         *)
C6_Original ==
    (VerifyLocated /\ InBox(test_lat, min_lat, max_lat)
                   /\ InBox(test_lon, min_lon, max_lon)) =>
        /\ At(Take(lat_full, lat_indices), filtered_lat_idx) = At(lat_full, full_lat_idx)
        /\ At(Take(lon_full, lon_indices), filtered_lon_idx) = At(lon_full, full_lon_idx)

(* C6, amended.  On each axis, when the nearest cell of the full grid lies *)
(* inside the bounding box, the filtered index denotes that very cell      *)
(* (same full-grid index, same coordinate); when this is so on both axes,  *)
(* the dataset series read with the full-grid indices is the series of the *)
(* cell the filtered indices denote, and coord_idx_calculated is that      *)
(* cell's lat-major index in the filtered grid.                            *)
C6_SameCellWhenNearestInBox ==
    VerifyLocated =>
        /\ LatNearestInBox =>
              /\ filtered_lat_idx < Len(lat_indices)
              /\ At(lat_indices, filtered_lat_idx) = full_lat_idx
              /\ At(Take(lat_full, lat_indices), filtered_lat_idx)
                    = At(lat_full, full_lat_idx)
        /\ LonNearestInBox =>
              /\ filtered_lon_idx < Len(lon_indices)
              /\ At(lon_indices, filtered_lon_idx) = full_lon_idx
              /\ At(Take(lon_full, lon_indices), filtered_lon_idx)
                    = At(lon_full, full_lon_idx)
        /\ (LatNearestInBox /\ LonNearestInBox) =>
              /\ netcdf_ts = [d \in 1..NumDays |->
                                 Tx(d - 1, At(lat_indices, filtered_lat_idx),
                                           At(lon_indices, filtered_lon_idx))]
              /\ coord_index \div Len(lon_indices) = filtered_lat_idx
              /\ coord_index % Len(lon_indices) = filtered_lon_idx

(* C6, witness: the nearest cell lies in the box on both axes and its      *)
(* filtered indices differ from its full-grid indices.                     *)
C6_Witness ==
    /\ VerifyLocated /\ pc = "done"
    /\ LatNearestInBox /\ LonNearestInBox
    /\ filtered_lat_idx # full_lat_idx
    /\ filtered_lon_idx # full_lon_idx

----------------------------------------------------------------------------
Extracted == script = "final_diagnosis" /\ Did("extract_block")

----------------------------------------------------------------------------
FlattenDone ==
    /\ script = "final_diagnosis"
    /\ \/ pc \in {"read_chunk", "filtered_idx", "series", "rows", "stats", "done"}
       \/ pc = "crashed" /\ Did("open_chunk")

SeriesSliced == script = "final_diagnosis" /\ Did("slice_dataset")

Stored(src, v) == IF src = Masked THEN v = NaN ELSE v = src

(* C4, as claimed.  final_diagnosis.py: after the flattening loop every    *)
(* element of the flat array equals the element of the block it comes      *)
(* from, and python_ts is exactly the block's series of the cell           *)
(* (filtered_lat_idx, filtered_lon_idx).                                   *)
C4_Original ==
    /\ FlattenDone =>
          \A jj \in 0..(nlat - 1), ii \in 0..(nlon - 1), tt \in 0..(ntime - 1) :
              /\ flat_data_python[(jj * nlon + ii) * ntime + tt]
                    = data_transposed(ii, jj, tt)
              /\ data_transposed(ii, jj, tt) = data_nc(tt, jj, ii)
    /\ SeriesSliced =>
          python_ts = [d \in 1..ntime |->
                          data_nc(d - 1, filtered_lat_idx, filtered_lon_idx)]

(* C4, amended.  The layout is as claimed: the element at                  *)
(* (j*nlon + i)*ntime + t comes from data_transposed[i, j, t], which is    *)
(* data_nc[t, j, i], which is tx[t, lat_start + j, lon_start + i]; it      *)
(* equals that element when the element is not masked and is NaN when it   *)
(* is.  The slice at c = filtered_lat_idx*nlon + filtered_lon_idx has      *)
(* ntime elements and is the series of block cell (filtered_lat_idx,       *)
(* filtered_lon_idx), with the same conversion.                            *)
C4_FlatLayout ==
    /\ FlattenDone =>
          \A jj \in 0..(nlat - 1), ii \in 0..(nlon - 1), tt \in 0..(ntime - 1) :
              /\ data_transposed(ii, jj, tt) = data_nc(tt, jj, ii)
              /\ data_nc(tt, jj, ii) = Tx(tt, lat_start + jj, lon_start + ii)
              /\ Stored(data_nc(tt, jj, ii),
                        flat_data_python[(jj * nlon + ii) * ntime + tt])
    /\ SeriesSliced =>
          /\ coord_index = filtered_lat_idx * nlon + filtered_lon_idx
          /\ Len(python_ts) = ntime
          /\ \A tt \in 0..(ntime - 1) :
                Stored(data_nc(tt, filtered_lat_idx, filtered_lon_idx),
                       At(python_ts, tt))

(* C4, witness: a block of several rows and columns with a masked element, *)
(* sliced at a cell that is not the first of its row or column.            *)
C4_Witness ==
    /\ SeriesSliced /\ pc = "done"
    /\ nlat > 1 /\ nlon > 1
    /\ filtered_lat_idx > 0 /\ filtered_lon_idx > 0
    /\ At(python_ts, 0) # NaN
    /\ \E k \in DOMAIN flat_data_python : flat_data_python[k] = NaN

----------------------------------------------------------------------------
(* C2, as claimed.  One of the scripts that compute a flattened            *)
(* coordinate index computes it lon-major and another lat-major, so that   *)
(* on the dataset's grid (once it is read and has two rows and two         *)
(* columns) two scripts disagree on some cell.                             *)
C2_Original ==
    (Len(lat_full) > 1 /\ Len(lon_full) > 1) =>
        LET nlat_ == Len(lat_full)
            nlon_ == Len(lon_full)
            Cells == (0..(nlat_ - 1)) \X (0..(nlon_ - 1))
        IN  \E s1, s2 \in IndexScripts :
                /\ \A c \in Cells :
                      ScriptIndex(s1, c[1], c[2], nlon_) = LonMajor(c[1], c[2], nlat_, nlon_)
                /\ \A c \in Cells :
                      ScriptIndex(s2, c[1], c[2], nlon_) = LatMajor(c[1], c[2], nlat_, nlon_)
                /\ \E c \in Cells :
                      ScriptIndex(s1, c[1], c[2], nlon_) # ScriptIndex(s2, c[1], c[2], nlon_)

(* C2, amended.  All three scripts that compute a flattened coordinate     *)
(* index compute it lat-major: on every cell of a grid they give the same  *)
(* index lat_idx * nlon + lon_idx, and the index each script has computed  *)
(* is the lat-major index of its cell in its grid (the full grid for       *)
(* compare_netcdf_chunk.py, the filtered grid for the other two).          *)
C2_AllLatMajor ==
    /\ LET nlat_ == Len(lat_full)
           nlon_ == Len(lon_full)
       IN  \A s \in IndexScripts, a \in 0..(nlat_ - 1), b \in 0..(nlon_ - 1) :
               ScriptIndex(s, a, b, nlon_) = LatMajor(a, b, nlat_, nlon_)
    /\ Did("coord_index") =>
          CASE script = "compare_netcdf_chunk" ->
                  coord_index = LatMajor(full_lat_idx, full_lon_idx,
                                         Len(lat_full), Len(lon_full))
            [] script = "verify_coordinate_mapping" ->
                  coord_index = LatMajor(filtered_lat_idx, filtered_lon_idx,
                                         Len(lat_indices), Len(lon_indices))
            [] script = "final_diagnosis" ->
                  coord_index = LatMajor(filtered_lat_idx, filtered_lon_idx, nlat, nlon)

(* C2, witness: a computed index on which the two conventions differ.      *)
C2_Witness ==
    /\ script = "verify_coordinate_mapping" /\ Did("coord_index")
    /\ LatMajor(filtered_lat_idx, filtered_lon_idx, Len(lat_indices), Len(lon_indices))
          # LonMajor(filtered_lat_idx, filtered_lon_idx, Len(lat_indices), Len(lon_indices))

----------------------------------------------------------------------------
StatedOrder ==
    <<"open_dataset", "open_chunk", "coord_index", "slice_dataset", "slice_chunk",
      "compare">>

RECURSIVE FirstOccurrences(_, _)
FirstOccurrences(a, seen) ==
    IF a = <<>> THEN <<>>
    ELSE IF Head(a) \in seen \/ ~(\E k \in 1..Len(StatedOrder) : StatedOrder[k] = Head(a))
         THEN FirstOccurrences(Tail(a), seen)
         ELSE <<Head(a)>> \o FirstOccurrences(Tail(a), seen \cup {Head(a)})

OwnOrder(s) ==
    CASE s = "check_chunk" -> {<<"open_chunk">>}
      [] s = "diagnose_netcdf" -> {<<"open_dataset", "slice_dataset">>}
      [] s = "compare_netcdf_chunk" ->
            {<<"open_dataset", "open_chunk", "slice_dataset", "coord_index",
               "slice_dataset", "slice_chunk">>}
      [] s = "verify_coordinate_mapping" ->
            {<<"open_dataset", "slice_dataset", "coord_index", "open_chunk",
               "slice_chunk">>,
             <<"open_dataset", "slice_dataset", "coord_index", "open_chunk",
               "slice_chunk", "compare">>}
      [] s = "final_diagnosis" ->
            {<<"open_dataset", "extract_block", "open_chunk", "coord_index",
               "slice_dataset", "slice_chunk", "compare">>}

(* C3, as claimed.  Every script that completes has performed, in this     *)
(* order: open the dataset, open the chunk, compute the coordinate index,  *)
(* slice the dataset series, slice the chunk series, print the             *)
(* side-by-side table.  (Order of first occurrence; the extraction of the  *)
(* block in final_diagnosis.py is not one of the six.)                     *)
C3_Original == pc = "done" => FirstOccurrences(ops, {}) = StatedOrder

(* C3, amended.  The scripts do not share one sequence of operations.  At  *)
(* every moment the operations performed are a prefix of the script's own  *)
(* sequence below, and a script that completes has performed all of it:    *)
(* check_chunk.py only reads the chunk; diagnose_netcdf.py only opens the  *)
(* dataset and slices one series; compare_netcdf_chunk.py slices from the  *)
(* dataset before it computes the index and prints no table;               *)
(* verify_coordinate_mapping.py slices the dataset and computes the index  *)
(* before it opens the chunk, and prints the table only when no value of   *)
(* the chunk series is missing; final_diagnosis.py alone follows the       *)
(* stated order.                                                           *)
C3_OwnOrderPerScript ==
    /\ \E full \in OwnOrder(script) : IsPrefix(ops, full)
    /\ pc = "done" =>
          /\ ops \in OwnOrder(script)
          /\ script = "verify_coordinate_mapping" => (Did("compare") <=> missing_count = 0)
          /\ (FirstOccurrences(ops, {}) = StatedOrder) <=> script = "final_diagnosis"

(* C3, witness: verify_coordinate_mapping.py completes without a table.    *)
C3_Witness ==
    /\ script = "verify_coordinate_mapping" /\ pc = "done"
    /\ missing_count # 0
    /\ ~Did("compare")

----------------------------------------------------------------------------
LoopCounts ==
    /\ script = "final_diagnosis" =>
          /\ IF pc = "flatten"
             THEN /\ iterations = (j * nlon + i) * ntime + t
                  /\ iterations < nlat * nlon * ntime
             ELSE iterations = nlat * nlon * ntime
          /\ row <= NumRows
          /\ pc \in {"stats", "done"} => row = NumRows
    /\ script = "verify_coordinate_mapping" =>
          /\ row <= NumRows
          /\ pc \in {"close", "done"} =>
                row = IF missing_count = 0 THEN NumRows ELSE 0
    /\ IF script = "diagnose_netcdf"
       THEN /\ dims_printed <= Len(Dimensions)
            /\ pc \notin {"start", "dims"} => dims_printed = Len(Dimensions)
       ELSE dims_printed = 0
    /\ script \notin {"final_diagnosis", "verify_coordinate_mapping"} => row = 0
    /\ script # "final_diagnosis" => iterations = 0

(* C1, as claimed.  At the exit of a script that completes the only loops  *)
(* that have run are the flattening loop, for exactly nlat*nlon*ntime      *)
(* bodies, and the table loops, for exactly NumRows rows.                  *)
C1_Original ==
    pc = "done" =>
        /\ script = "final_diagnosis" =>
              iterations = nlat * nlon * ntime /\ row = NumRows
        /\ script = "verify_coordinate_mapping" => row = NumRows
        /\ dims_printed = 0

(* C1, amended.  Every script terminates, by reaching its end or by an     *)
(* uncaught exception.  The flattening loop runs exactly nlat*nlon*ntime   *)
(* bodies.  The table loop of final_diagnosis.py has printed NumRows rows  *)
(* when the script goes on to the statistics; the one of                   *)
(* verify_coordinate_mapping.py has printed NumRows rows when no value of  *)
(* the chunk series is missing and none otherwise; diagnose_netcdf.py      *)
(* also loops once over each dimension of the dataset.                     *)
C1_TerminatesLoopsExact == <>Terminated /\ []LoopCounts

(* C1, witness: final_diagnosis.py completes on a block of several rows    *)
(* and columns.                                                            *)
C1_Witness ==
    /\ script = "final_diagnosis" /\ pc = "done"
    /\ nlat > 1 /\ nlon > 1
    /\ iterations = nlat * nlon * ntime
    /\ row = NumRows
====
